---- MODULE Spec2Model ----
(***************************************************************************)
(* A model of the ZoomPanPinch controller (src/core/instance.core.ts) and  *)
(* of the pinch recognizer (src/core/pinch/pinch.logic.ts).                *)
(*                                                                         *)
(* Numbers are JavaScript numbers: a record [k, v] whose kind k is "fin"   *)
(* (v an integer), "nan", "inf" (v = 1 or -1) or "null".                   *)
(***************************************************************************)
EXTENDS Integers, Sequences, FiniteSets, TLC

\* ------------------------------------------------------------------------
\* JavaScript numbers
\* ------------------------------------------------------------------------

Num(n) == [k |-> "fin", v |-> n]
NaN == [k |-> "nan", v |-> 0]
PosInf == [k |-> "inf", v |-> 1]
NegInf == [k |-> "inf", v |-> -1]
Null == [k |-> "null", v |-> 0]

\* Number.isNaN
IsNaN(a) == a.k = "nan"

\* Number.isFinite
IsFinite(a) == a.k = "fin"

\* a === b on numbers: NaN is not equal to itself
StrictEq(a, b) == a.k # "nan" /\ a = b

\* the truthiness of a number-or-null: null, 0 and NaN are falsy
Truthy(a) == a.k = "inf" \/ (a.k = "fin" /\ a.v # 0)

Sign(n) == IF n > 0 THEN 1 ELSE IF n < 0 THEN -1 ELSE 0

\* a + b
Add(a, b) ==
  IF a.k = "nan" \/ b.k = "nan" THEN NaN
  ELSE IF a.k = "inf" /\ b.k = "inf" THEN (IF a.v = b.v THEN a ELSE NaN)
  ELSE IF a.k = "inf" THEN a
  ELSE IF b.k = "inf" THEN b
  ELSE Num(a.v + b.v)

\* -a
Neg(a) == IF a.k \in {"fin", "inf"} THEN [k |-> a.k, v |-> 0 - a.v] ELSE a

\* a - b
Sub(a, b) == Add(a, Neg(b))

\* a < b (false when either side is NaN)
Lt(a, b) ==
  IF a.k = "nan" \/ b.k = "nan" THEN FALSE
  ELSE IF a.k = "inf" THEN a.v < 0 /\ b # a
  ELSE IF b.k = "inf" THEN b.v > 0
  ELSE a.v < b.v

\* a <= b
Le(a, b) == Lt(a, b) \/ StrictEq(a, b)

\* a * b
Mul(a, b) ==
  IF a.k = "nan" \/ b.k = "nan" THEN NaN
  ELSE IF a.k = "inf" \/ b.k = "inf"
    THEN (IF a.v = 0 \/ b.v = 0 THEN NaN
          ELSE [k |-> "inf", v |-> Sign(a.v) * Sign(b.v)])
  ELSE Num(a.v * b.v)

\* Whether a / b is a number of the model: the quotient of two finite
\* numbers is kept only when it is an integer
Divides(a, b) ==
  (a.k = "fin" /\ b.k = "fin" /\ b.v # 0) => a.v % b.v = 0

\* a / b (x / 0 is an infinity, 0 / 0 is NaN)
Div(a, b) ==
  IF a.k = "nan" \/ b.k = "nan" THEN NaN
  ELSE IF a.k = "inf"
    THEN (IF b.k = "inf" THEN NaN
          ELSE [k |-> "inf", v |-> a.v * (IF b.v < 0 THEN -1 ELSE 1)])
  ELSE IF b.k = "inf" THEN Num(0)
  ELSE IF b.v = 0
    THEN (IF a.v = 0 THEN NaN ELSE [k |-> "inf", v |-> Sign(a.v)])
  ELSE Num(Sign(a.v) * Sign(b.v)
           * ((IF a.v < 0 THEN 0 - a.v ELSE a.v)
              \div (IF b.v < 0 THEN 0 - b.v ELSE b.v)))

\* ------------------------------------------------------------------------
\* Bounds of the model and the environment's values
\* ------------------------------------------------------------------------

\* init is called at most MaxInits times in one run
MaxInits == 2
\* the clock (in ms) stops once it has passed MaxTime
MaxTime == 201

\* operations that would move the content further than MaxPosition from the
\* origin are left out
MaxPosition == 4

\* the callbacks an application may hand to onChange
Callbacks == {1, 2}
\* the wrapper elements; content element e is the child of wrapper e
Elements == {1, 2}
\* no element (null)
NoElement == 0
\* offsetWidth and offsetHeight of every wrapper
WrapperSize == [width |-> 4, height |-> 4]
\* the sizes the content element takes over time
ContentSizes == {[width |-> 0, height |-> 0], [width |-> 4, height |-> 4]}
\* touch identifiers
TouchIds == {1, 2}
\* the points (clientX, clientY) that mouse, wheel and touch events report
Origin == [x |-> 0, y |-> 0]
Right == [x |-> 4, y |-> 0]
Far == [x |-> 8, y |-> 0]
\* where finger id is reported
FingerPoints(id) == IF id = 1 THEN {Origin, Right} ELSE {Far}

\* ------------------------------------------------------------------------
\* Configuration: props and the setup derived from them
\* ------------------------------------------------------------------------

NestedKeys == {"wheel", "panning", "pinch", "zoomAnimation",
               "alignmentAnimation", "doubleClick"}

\* initialSetup: the defaults of every option
initialSetup ==
  [disabled |-> FALSE, minScale |-> Num(1), maxScale |-> Num(8),
   limitToBounds |-> TRUE, centerOnInit |-> FALSE, centerZoomedOut |-> FALSE,
   wheel |-> [step |-> Num(1), disabled |-> FALSE, wheelDisabled |-> FALSE,
              activationKeys |-> {}],
   panning |-> [disabled |-> FALSE, wheelPanning |-> FALSE,
                lockAxisX |-> FALSE, lockAxisY |-> FALSE,
                allowLeftClickPan |-> TRUE, allowMiddleClickPan |-> TRUE,
                allowRightClickPan |-> TRUE, activationKeys |-> {}],
   pinch |-> [disabled |-> FALSE],
   zoomAnimation |-> [disabled |-> FALSE, size |-> Num(0)],
   alignmentAnimation |-> [disabled |-> FALSE, sizeX |-> Num(0),
                           sizeY |-> Num(0)],
   doubleClick |-> [disabled |-> FALSE, step |-> Num(1)]]

Merge(d, p) == [k \in DOMAIN d |-> IF k \in DOMAIN p THEN p[k] ELSE d[k]]

\* createSetup(props): the props laid over the defaults, option by option
createSetup(p) ==
  [k \in DOMAIN initialSetup |->
     IF k \in DOMAIN p
       THEN (IF k \in NestedKeys THEN Merge(initialSetup[k], p[k]) ELSE p[k])
       ELSE initialSetup[k]]

\* createState(props): the transform state a controller starts with
createState(p) ==
  LET sc == IF "initialScale" \in DOMAIN p THEN p.initialScale ELSE Num(1)
      px == IF "initialPositionX" \in DOMAIN p THEN p.initialPositionX ELSE Num(0)
      py == IF "initialPositionY" \in DOMAIN p THEN p.initialPositionY ELSE Num(0)
  IN [scale |-> sc, previousScale |-> sc, positionX |-> px, positionY |-> py]

\* the props an application passes to the constructor and to update
PropsWide == [maxScale |-> Num(2)]
PropsNarrow == [maxScale |-> Num(1)]
PropsWheelPan ==
  [maxScale |-> Num(2), wheel |-> [wheelDisabled |-> TRUE],
   panning |-> [wheelPanning |-> TRUE]]
PropsDisabled == [maxScale |-> Num(2), disabled |-> TRUE]
PropsFree ==
  [maxScale |-> Num(2), limitToBounds |-> FALSE, centerOnInit |-> TRUE]
PropsCentered == [maxScale |-> Num(2), centerOnInit |-> TRUE]
PropsZoomedOut == [maxScale |-> Num(2), centerZoomedOut |-> TRUE]
PropsKeys ==
  [maxScale |-> Num(2), panning |-> [activationKeys |-> {"a", "b"}],
   wheel |-> [activationKeys |-> {"a", "b"}]]
PropsSet ==
  {PropsWide, PropsNarrow, PropsWheelPan, PropsDisabled, PropsFree,
   PropsCentered, PropsZoomedOut, PropsKeys}

\* ------------------------------------------------------------------------
\* State
\* ------------------------------------------------------------------------

VARIABLES
  \* fields of the ZoomPanPinch instance
  transformState, props, setup, observer, onChangeCallbacks, onInitCallbacks,
  wrapperComponent, contentComponent, isInitialized, bounds,
  wheelStopEventTimer, isPanning, startCoords, lastTouch,
  lastDistance, pinchStartDistance, pinchStartScale, pinchMidpoint,
  pinchLastCenterX, pinchLastCenterY, velocity, animation, pressedKeys,
  activeTouches,
  \* the host environment: the DOM, the resize observers, the clock
  listeners, anonymousListeners, observers, contentSize, style, now,
  \* the unsubscribe closures onChange has returned
  handles,
  \* the first snapshot the retaining subscriber was handed
  snapshot,
  \* what the last operation was and what it made observable
  lastOp, log

vars ==
  <<transformState, props, setup, observer, onChangeCallbacks, onInitCallbacks,
    wrapperComponent, contentComponent, isInitialized, bounds,
    wheelStopEventTimer, isPanning, startCoords, lastTouch,
    lastDistance, pinchStartDistance, pinchStartScale, pinchMidpoint,
    pinchLastCenterX, pinchLastCenterY, velocity, animation, pressedKeys,
    activeTouches, listeners, anonymousListeners, observers, contentSize,
    style, now, handles, snapshot, lastOp, log>>

\* The state as one record, the log of the operation under way empty
Cur ==
  [transformState |-> transformState, props |-> props, setup |-> setup,
   observer |-> observer, onChangeCallbacks |-> onChangeCallbacks,
   onInitCallbacks |-> onInitCallbacks,
   wrapperComponent |-> wrapperComponent,
   contentComponent |-> contentComponent, isInitialized |-> isInitialized,
   bounds |-> bounds, wheelStopEventTimer |-> wheelStopEventTimer,
   isPanning |-> isPanning, startCoords |-> startCoords,
   lastTouch |-> lastTouch, lastDistance |-> lastDistance,
   pinchStartDistance |-> pinchStartDistance,
   pinchStartScale |-> pinchStartScale, pinchMidpoint |-> pinchMidpoint,
   pinchLastCenterX |-> pinchLastCenterX,
   pinchLastCenterY |-> pinchLastCenterY, velocity |-> velocity,
   animation |-> animation, pressedKeys |-> pressedKeys,
   activeTouches |-> activeTouches, listeners |-> listeners,
   anonymousListeners |-> anonymousListeners, observers |-> observers,
   contentSize |-> contentSize, style |-> style, now |-> now,
   handles |-> handles, snapshot |-> snapshot, log |-> <<>>]

\* a finite position of the model lies within MaxPosition of the origin
InModel(a) == IsFinite(a) => (0 - MaxPosition <= a.v /\ a.v <= MaxPosition)

\* The next state is s, reached by operation op; s is computed once
Install(op, s) ==
  \E r \in {s} :
    /\ InModel(r.transformState.positionX)
    /\ InModel(r.transformState.positionY)
    /\ transformState' = r.transformState
    /\ props' = r.props
    /\ setup' = r.setup
    /\ observer' = r.observer
    /\ onChangeCallbacks' = r.onChangeCallbacks
    /\ onInitCallbacks' = r.onInitCallbacks
    /\ wrapperComponent' = r.wrapperComponent
    /\ contentComponent' = r.contentComponent
    /\ isInitialized' = r.isInitialized
    /\ bounds' = r.bounds
    /\ wheelStopEventTimer' = r.wheelStopEventTimer
    /\ isPanning' = r.isPanning
    /\ startCoords' = r.startCoords
    /\ lastTouch' = r.lastTouch
    /\ lastDistance' = r.lastDistance
    /\ pinchStartDistance' = r.pinchStartDistance
    /\ pinchStartScale' = r.pinchStartScale
    /\ pinchMidpoint' = r.pinchMidpoint
    /\ pinchLastCenterX' = r.pinchLastCenterX
    /\ pinchLastCenterY' = r.pinchLastCenterY
    /\ velocity' = r.velocity
    /\ animation' = r.animation
    /\ pressedKeys' = r.pressedKeys
    /\ activeTouches' = r.activeTouches
    /\ listeners' = r.listeners
    /\ anonymousListeners' = r.anonymousListeners
    /\ observers' = r.observers
    /\ contentSize' = r.contentSize
    /\ style' = r.style
    /\ now' = r.now
    /\ handles' = r.handles
    /\ snapshot' = r.snapshot
    /\ lastOp' = op
    /\ log' = r.log

\* null values of the structured fields
NoPosition == [x |-> Null, y |-> Null]
NoBounds ==
  [minPositionX |-> Null, maxPositionX |-> Null,
   minPositionY |-> Null, maxPositionY |-> Null]
NoTarget == [scale |-> Null, positionX |-> Null, positionY |-> Null]
NoAnimation == [active |-> FALSE, target |-> NoTarget]
NoStyle == [x |-> Null, y |-> Null, scale |-> Null]
NoObserver == 0

\* public mounted = true
mounted == TRUE

\* the onChange callback that keeps the first snapshot it is handed
Retainer == 3

\* no snapshot kept yet
NoSnapshot == [held |-> FALSE, byReference |-> FALSE, taken |-> NoTarget]

\* getState(contextInstance): state is contextInstance.transformState, the
\* object itself; taken records the values it had when handed over
getState(s) ==
  [held |-> TRUE, byReference |-> TRUE, taken |-> s.transformState]

\* getContext(contextInstance): the state part of the snapshot (the controls
\* carry no state)
getContext(s) == getState(s)

\* ref.state as a holder of the snapshot reads it
snapshotState(snap, ts) == IF snap.byReference THEN ts ELSE snap.taken

\* ref.state[field] = value, written by a holder of the snapshot
writeSnapshot(s, field, value) ==
  IF ~s.snapshot.held THEN s
  ELSE IF s.snapshot.byReference
    THEN [s EXCEPT !.transformState[field] = value]
  ELSE [s EXCEPT !.snapshot.taken[field] = value]

\* One observable effect of the operation under way: a callback invoked or a
\* diagnostic printed, with the transform state it could read and whether an
\* animation occupied the slot; the retaining subscriber keeps its first
\* snapshot
Emit(s, kind, who) ==
  LET s1 == IF kind = "onChange" /\ who = Retainer /\ ~s.snapshot.held
              THEN [s EXCEPT !.snapshot = getContext(s)]
              ELSE s
  IN [s1 EXCEPT !.log = Append(@, [kind |-> kind, who |-> who,
                                   seen |-> s.transformState,
                                   anim |-> s.animation.active])]

\* handleCallback(getContext(this), event, callback)
handleCallback(s, name) == Emit(s, name, 0)

\* ------------------------------------------------------------------------
\* The commit
\* ------------------------------------------------------------------------

\* getTransformStyles(x, y, scale)
getTransformStyles(x, y, scale) == [x |-> x, y |-> y, scale |-> scale]

\* applyTransformation
applyTransformation(s) ==
  IF ~mounted \/ s.contentComponent = NoElement THEN s
  ELSE [s EXCEPT !.style[s.contentComponent] =
          getTransformStyles(s.transformState.positionX,
                             s.transformState.positionY,
                             s.transformState.scale)]

RECURSIVE forEachOnChange(_, _)
\* this.onChangeCallbacks.forEach((callback) => callback(ctx))
forEachOnChange(s, cbs) ==
  IF cbs = <<>> THEN s
  ELSE forEachOnChange(Emit(s, "onChange", Head(cbs)), Tail(cbs))

\* the guard of setTransformState, were it to test the scale alone
NoNaNScaleOnly(scale, positionX, positionY) == ~IsNaN(scale)

\* the guard of setTransformState
NoNaN(scale, positionX, positionY) ==
  ~IsNaN(scale) /\ ~IsNaN(positionX) /\ ~IsNaN(positionY)

\* setTransformState(scale, positionX, positionY)
setTransformState(s, scale, positionX, positionY) ==
  IF NoNaN(scale, positionX, positionY)
    THEN LET ts == s.transformState
             s1 == [s EXCEPT !.transformState =
                      [scale |-> scale,
                       previousScale |->
                         IF ~StrictEq(scale, ts.scale) THEN ts.scale
                         ELSE ts.previousScale,
                       positionX |-> positionX,
                       positionY |-> positionY]]
             s2 == applyTransformation(Emit(s1, "commit", 0))
             s3 == forEachOnChange(s2, s2.onChangeCallbacks)
         IN handleCallback(s3, "onTransformed")
    ELSE Emit(s, "console.error", 0)

\* ------------------------------------------------------------------------
\* Collaborators of the controller: animation slot, bounds, position clamp
\* ------------------------------------------------------------------------

\* handleCancelAnimation: the slot is emptied, no snap to the target
handleCancelAnimation(s) ==
  [s EXCEPT !.animation = NoAnimation, !.velocity = FALSE]

\* animate(target): any running animation is replaced by one towards target
animate(s, target) ==
  [s EXCEPT !.animation = [active |-> TRUE, target |-> target]]

\* offsetWidth / offsetHeight of the content element
ContentWidth(s) == Num(s.contentSize.width)
ContentHeight(s) == Num(s.contentSize.height)

\* One axis of the bounds: wrapper size w, scaled content size c
AxisBounds(w, c, centerZoomedOut) ==
  IF Le(w, c) THEN [min |-> Sub(w, c), max |-> Num(0)]
  ELSE IF centerZoomedOut
    THEN [min |-> Div(Sub(w, c), Num(2)), max |-> Div(Sub(w, c), Num(2))]
  ELSE [min |-> Num(0), max |-> Sub(w, c)]

\* calculateBounds(contextInstance, newScale)
calculateBounds(s, newScale) ==
  LET bx == AxisBounds(Num(WrapperSize.width), Mul(ContentWidth(s), newScale),
                       s.setup.centerZoomedOut)
      by == AxisBounds(Num(WrapperSize.height), Mul(ContentHeight(s), newScale),
                       s.setup.centerZoomedOut)
  IN [minPositionX |-> bx.min, maxPositionX |-> bx.max,
      minPositionY |-> by.min, maxPositionY |-> by.max]

\* handleCalculateBounds(contextInstance, newScale): computes the bounds and
\* stores them; without components there is nothing to measure
handleCalculateBounds(s, newScale) ==
  IF s.wrapperComponent = NoElement \/ s.contentComponent = NoElement THEN s
  ELSE [s EXCEPT !.bounds = calculateBounds(s, newScale)]

\* boundLimiter(value, min, max, isActive)
boundLimiter(value, min, max, isActive) ==
  IF ~isActive THEN value
  ELSE IF Lt(value, min) THEN min
  ELSE IF Lt(max, value) THEN max
  ELSE value

\* getMouseBoundedPosition: the position clamp
getMouseBoundedPosition(x, y, b, limitToBounds, paddingX, paddingY) ==
  [x |-> boundLimiter(x, Sub(b.minPositionX, paddingX),
                      Add(b.maxPositionX, paddingX), limitToBounds),
   y |-> boundLimiter(y, Sub(b.minPositionY, paddingY),
                      Add(b.maxPositionY, paddingY), limitToBounds)]

\* getPaddingValue(contextInstance, size)
getPaddingValue(s, size) ==
  IF Lt(Num(0), size) /\ Le(s.setup.minScale, s.transformState.scale)
    THEN size ELSE Num(0)

\* handleNewPosition: clamps the candidate position and commits it
handleNewPosition(s, newPositionX, newPositionY, paddingX, paddingY) ==
  IF s.bounds = NoBounds
     \/ (StrictEq(newPositionX, s.transformState.positionX)
         /\ StrictEq(newPositionY, s.transformState.positionY))
    THEN s
    ELSE LET p == getMouseBoundedPosition(newPositionX, newPositionY, s.bounds,
                                          s.setup.limitToBounds,
                                          paddingX, paddingY)
         IN setTransformState(s, s.transformState.scale, p.x, p.y)

\* getCenterPosition(scale, wrapperComponent, contentComponent)
getCenterPosition(s, scale) ==
  [scale |-> scale,
   positionX |-> Div(Sub(Num(WrapperSize.width), Mul(ContentWidth(s), scale)),
                     Num(2)),
   positionY |-> Div(Sub(Num(WrapperSize.height), Mul(ContentHeight(s), scale)),
                     Num(2))]

\* handleAlignToBounds: an animation towards the position clamped to the
\* strict bounds, when the position lies outside them
handleAlignToBounds(s) ==
  IF s.bounds = NoBounds \/ s.setup.alignmentAnimation.disabled THEN s
  ELSE LET ts == s.transformState
           p == getMouseBoundedPosition(ts.positionX, ts.positionY, s.bounds,
                                        s.setup.limitToBounds, Num(0), Num(0))
       IN IF p.x = ts.positionX /\ p.y = ts.positionY THEN s
          ELSE animate(s, [scale |-> ts.scale, positionX |-> p.x,
                           positionY |-> p.y])

\* checkZoomBounds(zoom, minScale, maxScale)
checkZoomBounds(zoom, minScale, maxScale) ==
  IF IsNaN(zoom) THEN zoom
  ELSE IF Lt(zoom, minScale) THEN minScale
  ELSE IF Lt(maxScale, zoom) THEN maxScale
  ELSE zoom

\* ------------------------------------------------------------------------
\* Listeners, lifecycle, configuration
\* ------------------------------------------------------------------------

Window == <<"window", 0>>
Document == <<"document", 0>>
Wrapper(w) == <<"wrapper", w>>

\* target.removeEventListener(type, handler)
removeEventListener(s, target, type, handler) ==
  [s EXCEPT !.listeners = @ \ {<<target, type, handler>>}]

\* the listeners initializeWindowEvents puts on the window and the document
WindowListeners ==
  {<<Window, "mousedown", "onPanningStart">>,
   <<Window, "mousemove", "onPanning">>,
   <<Window, "mouseup", "onPanningStop">>,
   <<Document, "mouseleave", "clearPanning">>,
   <<Window, "keyup", "setKeyUnPressed">>,
   <<Window, "keydown", "setKeyPressed">>}

\* initializeWindowEvents: every target hangs off this.wrapperComponent
initializeWindowEvents(s) ==
  IF s.wrapperComponent = NoElement THEN s
  ELSE [s EXCEPT !.listeners =
          @ \cup {<<Wrapper(s.wrapperComponent), "wheel", "onWheelPanning">>}
            \cup WindowListeners]

\* this.observer?.disconnect()
disconnectObserver(s) ==
  IF s.observer = NoObserver THEN s
  ELSE [s EXCEPT !.observers[s.observer].connected = FALSE]

\* cleanupWindowEvents
cleanupWindowEvents(s) ==
  LET s1 == IF s.wrapperComponent = NoElement THEN s
            ELSE [s EXCEPT !.listeners = @ \ WindowListeners]
      s2 == removeEventListener(s1, Document, "mouseleave", "clearPanning")
  IN disconnectObserver(handleCancelAnimation(s2))

\* the named listeners handleInitializeWrapperEvents puts on the wrapper
WrapperListeners(w) ==
  {<<Wrapper(w), "wheel", "onWheelZoom">>,
   <<Wrapper(w), "dblclick", "onDoubleClick">>,
   <<Wrapper(w), "touchstart", "onTouchPanningStart">>,
   <<Wrapper(w), "touchmove", "onTouchPanning">>,
   <<Wrapper(w), "touchend", "onTouchPanningStop">>}

\* handleInitializeWrapperEvents: the touchcancel listener is a new closure
\* on every call
handleInitializeWrapperEvents(s, w) ==
  [s EXCEPT !.listeners = @ \cup WrapperListeners(w),
            !.anonymousListeners[w] = @ + 1]

RECURSIVE forEachOnInit(_, _)
\* this.onInitCallbacks.forEach((callback) => callback(getContext(this)))
forEachOnInit(s, cbs) ==
  IF cbs = <<>> THEN s
  ELSE forEachOnInit(Emit(s, "onInitCallback", Head(cbs)), Tail(cbs))

\* handleInitialize(wrapper, contentComponent)
handleInitialize(s, w, c) ==
  LET s1 == forEachOnInit(applyTransformation(s), s.onInitCallbacks)
      obs == [wrapper |-> w, content |-> c,
              centerOnInit |-> s.setup.centerOnInit,
              isCentered |-> FALSE, connected |-> TRUE]
  IN [s1 EXCEPT !.observers = Append(@, obs),
                !.observer = Len(s.observers) + 1]

\* init(wrapperComponent, contentComponent)
init(s, w, c) ==
  LET s1 == cleanupWindowEvents(s)
      s2 == [s1 EXCEPT !.wrapperComponent = w, !.contentComponent = c]
      s3 == handleCalculateBounds(s2, s2.transformState.scale)
      s4 == handleInitializeWrapperEvents(s3, w)
      s5 == handleInitialize(s4, w, c)
      s6 == initializeWindowEvents(s5)
      s7 == [s6 EXCEPT !.isInitialized = TRUE]
  IN handleCallback(s7, "onInit")

\* mount
mount(s) == initializeWindowEvents(s)

\* unmount
unmount(s) == cleanupWindowEvents(s)

\* update(newProps), were it to start over from the initial transform
updateResetting(s, newProps) ==
  [s EXCEPT !.props = newProps, !.setup = createSetup(newProps),
            !.transformState = createState(newProps)]

\* update(newProps)
update(s, newProps) ==
  LET s1 == [s EXCEPT !.props = newProps]
      s2 == handleCalculateBounds(s1, s1.transformState.scale)
  IN [s2 EXCEPT !.setup = createSetup(newProps)]

\* setCenter
setCenter(s) ==
  IF s.wrapperComponent # NoElement /\ s.contentComponent # NoElement
    THEN LET t == getCenterPosition(s, s.transformState.scale)
         IN setTransformState(s, t.scale, t.positionX, t.positionY)
    ELSE s

\* the members of a sequence
Range(q) == {q[i] : i \in DOMAIN q}

\* q without the entries equal to x
Without(q, x) == SelectSeq(q, LAMBDA e : e # x)

\* onChange(callback) / onInit(callback): subscribes, returns a new closure
subscribe(s, hook, cb) ==
  LET field == IF hook = "onChange" THEN "onChangeCallbacks"
               ELSE "onInitCallbacks"
      s1 == IF cb \in Range(s[field]) THEN s
            ELSE [s EXCEPT ![field] = Append(@, cb)]
  IN [s1 EXCEPT !.handles =
        Append(@, [hook |-> hook, cb |-> cb, called |-> FALSE])]

\* the closure returned by onChange / onInit: deletes its callback
unsubscribe(s, h) ==
  LET field == IF s.handles[h].hook = "onChange" THEN "onChangeCallbacks"
               ELSE "onInitCallbacks"
  IN [s EXCEPT ![field] = Without(@, s.handles[h].cb),
               !.handles[h].called = TRUE]

\* ------------------------------------------------------------------------
\* Gates
\* ------------------------------------------------------------------------

\* isPanningStartAllowed(contextInstance, event); target is the wrapper the
\* event's target lies in
isPanningStartAllowed(s, target) ==
  s.isInitialized /\ ~s.setup.panning.disabled
  /\ target # NoElement /\ target = s.wrapperComponent

\* isPanningAllowed(contextInstance)
isPanningAllowed(s) ==
  s.isInitialized /\ s.isPanning /\ s.startCoords # NoPosition
  /\ ~s.setup.panning.disabled

\* isPinchStartAllowed(contextInstance, event)
isPinchStartAllowed(s, target) ==
  s.isInitialized /\ ~s.setup.pinch.disabled
  /\ target # NoElement /\ target = s.wrapperComponent

\* isPinchAllowed(contextInstance)
isPinchAllowed(s) ==
  s.isInitialized /\ ~s.setup.pinch.disabled /\ Truthy(s.pinchStartDistance)

\* isWheelAllowed(contextInstance, event)
isWheelAllowed(s, target) ==
  s.isInitialized /\ ~s.setup.wheel.disabled /\ ~s.setup.wheel.wheelDisabled
  /\ target # NoElement /\ target = s.wrapperComponent

\* isPressingKeys(keys)
isPressingKeys(s, keys) ==
  IF keys = {} THEN TRUE
  ELSE \E key \in keys : key \in s.pressedKeys

\* ------------------------------------------------------------------------
\* Pan
\* ------------------------------------------------------------------------

\* handlePanningStart: the pan is active, the anchor is recorded
handlePanningStart(s, clientX, clientY) ==
  [s EXCEPT !.isPanning = TRUE,
            !.startCoords =
              [x |-> Sub(Num(clientX), s.transformState.positionX),
               y |-> Sub(Num(clientY), s.transformState.positionY)]]

\* handlePanning(contextInstance, clientX, clientY)
handlePanning(s, clientX, clientY) ==
  IF s.startCoords = NoPosition THEN s
  ELSE LET ts == s.transformState
           newPositionX == IF s.setup.panning.lockAxisX THEN ts.positionX
                           ELSE Sub(Num(clientX), s.startCoords.x)
           newPositionY == IF s.setup.panning.lockAxisY THEN ts.positionY
                           ELSE Sub(Num(clientY), s.startCoords.y)
           paddingX == getPaddingValue(s, s.setup.alignmentAnimation.sizeX)
           paddingY == getPaddingValue(s, s.setup.alignmentAnimation.sizeY)
           s1 == [s EXCEPT !.velocity = TRUE]
       IN handleNewPosition(s1, newPositionX, newPositionY, paddingX, paddingY)

\* handlePanningEnd: the pan is over; the position is aligned to the bounds
handlePanningEnd(s) ==
  IF s.isPanning
    THEN handleAlignToBounds([s EXCEPT !.isPanning = FALSE, !.velocity = FALSE])
    ELSE s

\* onPanningStart(event), were it to leave a running animation alone
onPanningStartNoCancel(s, target, clientX, clientY, button) ==
  IF s.setup.disabled THEN s
  ELSE IF ~isPanningStartAllowed(s, target) THEN s
  ELSE IF ~isPressingKeys(s, s.setup.panning.activationKeys) THEN s
  ELSE handleCallback(handlePanningStart(s, clientX, clientY),
                      "onPanningStart")

\* onPanningStart(event): button is event.button
onPanningStart(s, target, clientX, clientY, button) ==
  IF s.setup.disabled THEN s
  ELSE IF ~isPanningStartAllowed(s, target) THEN s
  ELSE IF ~isPressingKeys(s, s.setup.panning.activationKeys) THEN s
  ELSE IF button = 0 /\ ~s.setup.panning.allowLeftClickPan THEN s
  ELSE IF button = 1 /\ ~s.setup.panning.allowMiddleClickPan THEN s
  ELSE IF button = 2 /\ ~s.setup.panning.allowRightClickPan THEN s
  ELSE LET s1 == handleCancelAnimation(s)
           s2 == handlePanningStart(s1, clientX, clientY)
       IN handleCallback(s2, "onPanningStart")

\* onPanning(event)
onPanning(s, clientX, clientY) ==
  IF s.setup.disabled THEN s
  ELSE IF ~isPanningAllowed(s) THEN s
  ELSE IF ~isPressingKeys(s, s.setup.panning.activationKeys) THEN s
  ELSE handleCallback(handlePanning(s, clientX, clientY), "onPanning")

\* onPanningStop(event)
onPanningStop(s) ==
  IF s.isPanning
    THEN handleCallback(handlePanningEnd(s), "onPanningStop")
    ELSE s

\* clearPanning(event)
clearPanning(s) == IF s.isPanning THEN onPanningStop(s) ELSE s

\* onWheelPanning(event)
onWheelPanning(s, deltaX, deltaY, ctrlKey) ==
  IF s.wrapperComponent = NoElement \/ s.contentComponent = NoElement
     \/ s.setup.disabled \/ ~s.setup.wheel.wheelDisabled
     \/ s.setup.panning.disabled \/ ~s.setup.panning.wheelPanning \/ ctrlKey
    THEN s
    ELSE LET ts == s.transformState
             mouseX == Sub(ts.positionX, Num(deltaX))
             mouseY == Sub(ts.positionY, Num(deltaY))
             newPositionX == IF s.setup.panning.lockAxisX THEN ts.positionX
                             ELSE mouseX
             newPositionY == IF s.setup.panning.lockAxisY THEN ts.positionY
                             ELSE mouseY
             paddingX == getPaddingValue(s, s.setup.alignmentAnimation.sizeX)
             paddingY == getPaddingValue(s, s.setup.alignmentAnimation.sizeY)
         IN IF StrictEq(newPositionX, ts.positionX)
               /\ StrictEq(newPositionY, ts.positionY)
              THEN s
              ELSE handleNewPosition(s, newPositionX, newPositionY,
                                     paddingX, paddingY)

\* ------------------------------------------------------------------------
\* Pinch
\* ------------------------------------------------------------------------

\* Math.sqrt on the squares the touch points produce
Sqrt(n) == CHOOSE r \in 0..n : r * r <= n /\ n < (r + 1) * (r + 1)

\* getTouchDistance(activeTouches): the distance of the first two touches
getTouchDistance(touches) ==
  LET dx == touches[1].clientX - touches[2].clientX
      dy == touches[1].clientY - touches[2].clientY
  IN Num(Sqrt(dx * dx + dy * dy))

\* getTouchCenter(activeTouches)
getTouchCenter(touches) ==
  [x |-> Div(Num(touches[1].clientX + touches[2].clientX), Num(2)),
   y |-> Div(Num(touches[1].clientY + touches[2].clientY), Num(2))]

\* the client rectangle of the content element: the wrapper sits at the
\* origin and the content is moved by the transform applied to it
ContentRect(s) ==
  LET st == s.style[s.contentComponent]
  IN IF st = NoStyle THEN [left |-> Num(0), top |-> Num(0)]
     ELSE [left |-> st.x, top |-> st.y]

\* calculateTouchMidPoint(activeTouches, scale, contentComponent)
calculateTouchMidPoint(s, scale) ==
  LET r == ContentRect(s)
      t == s.activeTouches
      sumX == Add(Sub(Num(t[1].clientX), r.left), Sub(Num(t[2].clientX), r.left))
      sumY == Add(Sub(Num(t[1].clientY), r.top), Sub(Num(t[2].clientY), r.top))
  IN [x |-> Div(Div(sumX, Num(2)), scale), y |-> Div(Div(sumY, Num(2)), scale)]

\* calculatePinchZoom(contextInstance, currentDistance):
\* startScale * (currentDistance / startDistance), kept within the limits
calculatePinchZoom(s, currentDistance) ==
  LET start == s.pinchStartDistance
      a == s.pinchStartScale
      lo == s.setup.minScale
      hi == s.setup.maxScale
  IN IF IsFinite(start) /\ start.v > 0 /\ IsFinite(a) /\ IsFinite(lo)
        /\ IsFinite(hi)
       THEN LET n == a.v * currentDistance.v
            IN IF n < lo.v * start.v THEN lo
               ELSE IF n > hi.v * start.v THEN hi
               ELSE Num(n \div start.v)
       ELSE checkZoomBounds(Mul(a, Div(currentDistance, start)), lo, hi)

\* handleCalculateZoomPositions: the position that keeps the content point
\* (mouseX, mouseY) in place while the scale changes, clamped to the bounds
handleCalculateZoomPositions(s, mouseX, mouseY, newScale, b, limitToBounds) ==
  LET ts == s.transformState
      scaleDifference == Sub(newScale, ts.scale)
  IN getMouseBoundedPosition(Sub(ts.positionX, Mul(mouseX, scaleDifference)),
                             Sub(ts.positionY, Mul(mouseY, scaleDifference)),
                             b, limitToBounds, Num(0), Num(0))

\* handleAlignToScaleBounds(contextInstance, mousePositionX, mousePositionY):
\* an animation back to a scale within the limits, anchored at the point
handleAlignToScaleBounds(s, mouse) ==
  LET ts == s.transformState
      target == checkZoomBounds(ts.scale, s.setup.minScale, s.setup.maxScale)
  IN IF StrictEq(target, ts.scale) \/ IsNaN(target) THEN handleAlignToBounds(s)
     ELSE LET b == calculateBounds(s, target)
              at == IF mouse = NoPosition THEN [x |-> Num(0), y |-> Num(0)]
                    ELSE mouse
              p == handleCalculateZoomPositions(s, at.x, at.y, target, b,
                                                s.setup.limitToBounds)
          IN animate(s, [scale |-> target, positionX |-> p.x,
                         positionY |-> p.y])

\* handlePinchStart(contextInstance)
handlePinchStart(s) ==
  LET distance == getTouchDistance(s.activeTouches)
      center == getTouchCenter(s.activeTouches)
  IN handleCancelAnimation(
       [s EXCEPT !.pinchStartDistance = distance,
                 !.lastDistance = distance,
                 !.pinchStartScale = s.transformState.scale,
                 !.isPanning = FALSE,
                 !.pinchLastCenterX = center.x,
                 !.pinchLastCenterY = center.y])

\* x || 0
OrZero(a) == IF Truthy(a) THEN a ELSE Num(0)

\* handlePinchZoom made incremental: each committing move takes itself as the
\* new start of the pinch
handlePinchZoomRebasing(s) ==
  IF s.pinchStartDistance = Null \/ s.contentComponent = NoElement THEN s
  ELSE
    LET scale == s.transformState.scale
        midPoint == calculateTouchMidPoint(s, scale)
    IN IF ~IsFinite(midPoint.x) \/ ~IsFinite(midPoint.y) THEN s
       ELSE
         LET currentDistance == getTouchDistance(s.activeTouches)
             newScale == calculatePinchZoom(s, currentDistance)
             center == getTouchCenter(s.activeTouches)
             panX == Sub(center.x, OrZero(s.pinchLastCenterX))
             panY == Sub(center.y, OrZero(s.pinchLastCenterY))
         IN IF StrictEq(newScale, scale) /\ StrictEq(panX, Num(0))
               /\ StrictEq(panY, Num(0))
              THEN s
              ELSE
                LET s1 == handleCalculateBounds(
                            [s EXCEPT !.pinchLastCenterX = center.x,
                                      !.pinchLastCenterY = center.y],
                            newScale)
                    b == calculateBounds(s, newScale)
                    za == s.setup.zoomAnimation
                    isPaddingDisabled == za.disabled \/ StrictEq(za.size, Num(0))
                                         \/ s.setup.centerZoomedOut
                    isLimitedToBounds == s.setup.limitToBounds
                                         /\ isPaddingDisabled
                    p == handleCalculateZoomPositions(s1, midPoint.x,
                           midPoint.y, newScale, b, isLimitedToBounds)
                    s2 == [s1 EXCEPT !.pinchMidpoint = midPoint,
                                     !.lastDistance = currentDistance,
                                     !.pinchStartDistance = currentDistance,
                                     !.pinchStartScale = newScale]
                    paddingX == getPaddingValue(s2,
                                  s.setup.alignmentAnimation.sizeX)
                    paddingY == getPaddingValue(s2,
                                  s.setup.alignmentAnimation.sizeY)
                    final == getMouseBoundedPosition(Add(p.x, panX),
                               Add(p.y, panY), b, s.setup.limitToBounds,
                               paddingX, paddingY)
                IN setTransformState(s2, newScale, final.x, final.y)

\* handlePinchZoom without its test of the midpoint
handlePinchZoomAnyMidpoint(s) ==
  IF s.pinchStartDistance = Null \/ s.contentComponent = NoElement THEN s
  ELSE
    LET scale == s.transformState.scale
        midPoint == calculateTouchMidPoint(s, scale)
    IN IF FALSE THEN s
       ELSE
         LET currentDistance == getTouchDistance(s.activeTouches)
             newScale == calculatePinchZoom(s, currentDistance)
             center == getTouchCenter(s.activeTouches)
             panX == Sub(center.x, OrZero(s.pinchLastCenterX))
             panY == Sub(center.y, OrZero(s.pinchLastCenterY))
         IN IF StrictEq(newScale, scale) /\ StrictEq(panX, Num(0))
               /\ StrictEq(panY, Num(0))
              THEN s
              ELSE
                LET s1 == handleCalculateBounds(
                            [s EXCEPT !.pinchLastCenterX = center.x,
                                      !.pinchLastCenterY = center.y],
                            newScale)
                    b == calculateBounds(s, newScale)
                    za == s.setup.zoomAnimation
                    isPaddingDisabled == za.disabled \/ StrictEq(za.size, Num(0))
                                         \/ s.setup.centerZoomedOut
                    isLimitedToBounds == s.setup.limitToBounds
                                         /\ isPaddingDisabled
                    p == handleCalculateZoomPositions(s1, midPoint.x,
                           midPoint.y, newScale, b, isLimitedToBounds)
                    s2 == [s1 EXCEPT !.pinchMidpoint = midPoint,
                                     !.lastDistance = currentDistance]
                    paddingX == getPaddingValue(s2,
                                  s.setup.alignmentAnimation.sizeX)
                    paddingY == getPaddingValue(s2,
                                  s.setup.alignmentAnimation.sizeY)
                    final == getMouseBoundedPosition(Add(p.x, panX),
                               Add(p.y, panY), b, s.setup.limitToBounds,
                               paddingX, paddingY)
                IN setTransformState(s2, newScale, final.x, final.y)

\* handlePinchZoom, were it to add the displacement of the centre to the
\* clamped position
handlePinchZoomPanAfterClamp(s) ==
  IF s.pinchStartDistance = Null \/ s.contentComponent = NoElement THEN s
  ELSE
    LET scale == s.transformState.scale
        midPoint == calculateTouchMidPoint(s, scale)
    IN IF ~IsFinite(midPoint.x) \/ ~IsFinite(midPoint.y) THEN s
       ELSE
         LET currentDistance == getTouchDistance(s.activeTouches)
             newScale == calculatePinchZoom(s, currentDistance)
             center == getTouchCenter(s.activeTouches)
             panX == Sub(center.x, OrZero(s.pinchLastCenterX))
             panY == Sub(center.y, OrZero(s.pinchLastCenterY))
         IN IF StrictEq(newScale, scale) /\ StrictEq(panX, Num(0))
               /\ StrictEq(panY, Num(0))
              THEN s
              ELSE
                LET s1 == handleCalculateBounds(
                            [s EXCEPT !.pinchLastCenterX = center.x,
                                      !.pinchLastCenterY = center.y],
                            newScale)
                    b == calculateBounds(s, newScale)
                    za == s.setup.zoomAnimation
                    isPaddingDisabled == za.disabled \/ StrictEq(za.size, Num(0))
                                         \/ s.setup.centerZoomedOut
                    isLimitedToBounds == s.setup.limitToBounds
                                         /\ isPaddingDisabled
                    p == handleCalculateZoomPositions(s1, midPoint.x,
                           midPoint.y, newScale, b, isLimitedToBounds)
                    s2 == [s1 EXCEPT !.pinchMidpoint = midPoint,
                                     !.lastDistance = currentDistance]
                    paddingX == getPaddingValue(s2,
                                  s.setup.alignmentAnimation.sizeX)
                    paddingY == getPaddingValue(s2,
                                  s.setup.alignmentAnimation.sizeY)
                    final == getMouseBoundedPosition(p.x, p.y, b,
                               s.setup.limitToBounds, paddingX, paddingY)
                IN setTransformState(s2, newScale, Add(final.x, panX),
                                     Add(final.y, panY))

\* handlePinchZoom(contextInstance)
handlePinchZoom(s) ==
  IF s.pinchStartDistance = Null \/ s.contentComponent = NoElement THEN s
  ELSE
    LET scale == s.transformState.scale
        midPoint == calculateTouchMidPoint(s, scale)
    IN IF ~IsFinite(midPoint.x) \/ ~IsFinite(midPoint.y) THEN s
       ELSE
         LET currentDistance == getTouchDistance(s.activeTouches)
             newScale == calculatePinchZoom(s, currentDistance)
             center == getTouchCenter(s.activeTouches)
             panX == Sub(center.x, OrZero(s.pinchLastCenterX))
             panY == Sub(center.y, OrZero(s.pinchLastCenterY))
         IN IF StrictEq(newScale, scale) /\ StrictEq(panX, Num(0))
               /\ StrictEq(panY, Num(0))
              THEN s
              ELSE
                LET s1 == handleCalculateBounds(
                            [s EXCEPT !.pinchLastCenterX = center.x,
                                      !.pinchLastCenterY = center.y],
                            newScale)
                    b == calculateBounds(s, newScale)
                    za == s.setup.zoomAnimation
                    isPaddingDisabled == za.disabled \/ StrictEq(za.size, Num(0))
                                         \/ s.setup.centerZoomedOut
                    isLimitedToBounds == s.setup.limitToBounds
                                         /\ isPaddingDisabled
                    p == handleCalculateZoomPositions(s1, midPoint.x,
                           midPoint.y, newScale, b, isLimitedToBounds)
                    s2 == [s1 EXCEPT !.pinchMidpoint = midPoint,
                                     !.lastDistance = currentDistance]
                    paddingX == getPaddingValue(s2,
                                  s.setup.alignmentAnimation.sizeX)
                    paddingY == getPaddingValue(s2,
                                  s.setup.alignmentAnimation.sizeY)
                    final == getMouseBoundedPosition(Add(p.x, panX),
                               Add(p.y, panY), b, s.setup.limitToBounds,
                               paddingX, paddingY)
                IN setTransformState(s2, newScale, final.x, final.y)

\* handlePinchStop(contextInstance)
handlePinchStop(s) ==
  LET mid == s.pinchMidpoint
  IN handleAlignToScaleBounds(
       [s EXCEPT !.velocity = FALSE,
                 !.lastDistance = Null,
                 !.pinchMidpoint = NoPosition,
                 !.pinchStartScale = Null,
                 !.pinchStartDistance = Null],
       mid)

\* onPinchStart(event)
onPinchStart(s, target) ==
  IF s.setup.disabled THEN s
  ELSE IF ~isPinchStartAllowed(s, target) THEN s
  ELSE LET s1 == handleCancelAnimation(handlePinchStart(s))
       IN handleCallback(handleCallback(s1, "onPinchingStart"), "onZoomStart")

\* onPinch(event)
onPinch(s) ==
  IF s.setup.disabled THEN s
  ELSE IF ~isPinchAllowed(s) THEN s
  ELSE handleCallback(handleCallback(handlePinchZoom(s), "onPinching"),
                      "onZoom")

\* onPinchStop(event)
onPinchStop(s) ==
  IF Truthy(s.pinchStartScale)
    THEN handleCallback(handleCallback(handlePinchStop(s), "onPinchingStop"),
                        "onZoomStop")
    ELSE s

\* ------------------------------------------------------------------------
\* Touch
\* ------------------------------------------------------------------------

\* the double tap window of onTouchPanningStart, in ms
DoubleTapWindow == 200

\* removeActiveTouches(touchList), were it to remove nothing
removeActiveTouchesNone(s, touchList) == s

\* removeActiveTouches(touchList)
removeActiveTouches(s, touchList) ==
  LET touchIds == {touchList[i].identifier : i \in DOMAIN touchList}
  IN [s EXCEPT !.activeTouches =
        SelectSeq(@, LAMBDA touch : touch.identifier \notin touchIds)]

\* addActiveTouches(touchList)
addActiveTouches(s, touchList) ==
  [s EXCEPT !.activeTouches = @ \o touchList]

\* onTouchPanningStart(event), were it to know no double tap
onTouchPanningStartEveryTap(s, changedTouches, target) ==
  LET s1 == addActiveTouches(removeActiveTouches(s, changedTouches),
                             changedTouches)
      isDoubleTap == FALSE
  IN IF s1.setup.disabled THEN s1
     ELSE IF ~isPanningStartAllowed(s1, target) THEN s1
     ELSE IF isDoubleTap THEN s1
     ELSE
       LET s2 == handleCancelAnimation([s1 EXCEPT !.lastTouch = Num(s1.now)])
           touches == s2.activeTouches
           s3 == IF Len(touches) = 1
                   THEN handleCallback(
                          handlePanningStart(handleCancelAnimation(s2),
                                             touches[1].clientX,
                                             touches[1].clientY),
                          "onPanningStart")
                   ELSE s2
       IN IF Len(touches) = 2 THEN onPinchStart(s3, target) ELSE s3

\* onTouchPanningStart(event)
onTouchPanningStart(s, changedTouches, target) ==
  LET s1 == addActiveTouches(removeActiveTouches(s, changedTouches),
                             changedTouches)
      isDoubleTap == Truthy(s1.lastTouch)
                     /\ s1.now - s1.lastTouch.v < DoubleTapWindow
                     /\ Len(s1.activeTouches) = 1
  IN IF s1.setup.disabled THEN s1
     ELSE IF ~isPanningStartAllowed(s1, target) THEN s1
     ELSE IF isDoubleTap THEN s1
     ELSE
       LET s2 == handleCancelAnimation([s1 EXCEPT !.lastTouch = Num(s1.now)])
           touches == s2.activeTouches
           s3 == IF Len(touches) = 1
                   THEN handleCallback(
                          handlePanningStart(handleCancelAnimation(s2),
                                             touches[1].clientX,
                                             touches[1].clientY),
                          "onPanningStart")
                   ELSE s2
       IN IF Len(touches) = 2 THEN onPinchStart(s3, target) ELSE s3

\* onTouchPanning(event)
onTouchPanning(s, changedTouches) ==
  LET s1 == addActiveTouches(removeActiveTouches(s, changedTouches),
                             changedTouches)
  IN IF s1.isPanning /\ Len(s1.activeTouches) = 1
       THEN IF s1.setup.disabled THEN s1
            ELSE IF ~isPanningAllowed(s1) THEN s1
            ELSE handleCallback(
                   handlePanning(s1, s1.activeTouches[1].clientX,
                                 s1.activeTouches[1].clientY),
                   "onPanning")
       ELSE IF Len(s1.activeTouches) > 1 THEN onPinch(s1)
       ELSE s1

\* onTouchPanningStop(event)
onTouchPanningStop(s, changedTouches) ==
  onPinchStop(onPanningStop(removeActiveTouches(s, changedTouches)))

\* the touchcancel listener
onTouchCancel(s, changedTouches) == removeActiveTouches(s, changedTouches)

\* ------------------------------------------------------------------------
\* Wheel zoom, keys
\* ------------------------------------------------------------------------

\* handleWheelStart: the first wheel event of a burst cancels the animation
handleWheelStart(s) ==
  IF s.wheelStopEventTimer THEN s
  ELSE handleCallback(handleCallback(handleCancelAnimation(s), "onWheelStart"),
                      "onZoomStart")

\* handleWheelZoom: one step of zoom anchored at the pointer
handleWheelZoom(s, delta, clientX, clientY) ==
  LET ts == s.transformState
      step == IF delta < 0 THEN s.setup.wheel.step
              ELSE Neg(s.setup.wheel.step)
      newScale == checkZoomBounds(Add(ts.scale, step), s.setup.minScale,
                                  s.setup.maxScale)
  IN IF StrictEq(newScale, ts.scale) THEN s
     ELSE LET s1 == handleCalculateBounds(s, newScale)
              r == ContentRect(s)
              mouseX == Div(Sub(Num(clientX), r.left), ts.scale)
              mouseY == Div(Sub(Num(clientY), r.top), ts.scale)
              p == handleCalculateZoomPositions(s1, mouseX, mouseY, newScale,
                     calculateBounds(s, newScale), s.setup.limitToBounds)
              s2 == setTransformState(s1, newScale, p.x, p.y)
          IN handleCallback(handleCallback(s2, "onWheel"), "onZoom")

\* handleWheelStop: (re)starts the timer that ends the burst
handleWheelStop(s) == [s EXCEPT !.wheelStopEventTimer = TRUE]

\* onWheelZoom(event)
onWheelZoom(s, target, delta, clientX, clientY) ==
  IF s.setup.disabled THEN s
  ELSE IF ~isWheelAllowed(s, target) THEN s
  ELSE IF ~isPressingKeys(s, s.setup.wheel.activationKeys) THEN s
  ELSE handleWheelStop(
         handleWheelZoom(handleWheelStart(s), delta, clientX, clientY))

\* the wheel stop timer fires: the burst is over, the scale is aligned
wheelStopTimeout(s) ==
  LET s1 == handleAlignToScaleBounds([s EXCEPT !.wheelStopEventTimer = FALSE],
                                     NoPosition)
  IN handleCallback(handleCallback(s1, "onWheelStop"), "onZoomStop")

\* setKeyPressed(e)
setKeyPressed(s, key) == [s EXCEPT !.pressedKeys = @ \cup {key}]

\* setKeyUnPressed(e)
setKeyUnPressed(s, key) == [s EXCEPT !.pressedKeys = @ \ {key}]

\* a + (b - a) / 2
Halfway(a, b) == Add(a, Div(Sub(b, a), Num(2)))

\* one frame of the running animation: the last frame commits the target and
\* empties the slot, an earlier frame commits the state half way to it
animationFrame(s, last) ==
  LET t == s.animation.target
      ts == s.transformState
  IN IF ~s.animation.active THEN s
     ELSE IF last
       THEN setTransformState([s EXCEPT !.animation = NoAnimation],
                              t.scale, t.positionX, t.positionY)
     ELSE setTransformState(s, Halfway(ts.scale, t.scale),
                            Halfway(ts.positionX, t.positionX),
                            Halfway(ts.positionY, t.positionY))

\* the resize observer created by handleInitialize number id notifies a
\* change of size of its wrapper or content
resizeObserverCallback(s, id) ==
  LET o == s.observers[id]
  IN IF o.centerOnInit /\ ~o.isCentered
       THEN IF s.contentSize.width > 0 \/ s.contentSize.height > 0
              THEN setCenter([s EXCEPT !.observers[id].isCentered = TRUE])
              ELSE s
       ELSE handleAlignToBounds(
              handleCalculateBounds(handleCancelAnimation(s),
                                    s.transformState.scale))

\* ------------------------------------------------------------------------
\* The state machine
\* ------------------------------------------------------------------------

\* a subscription hook hands out at most MaxHandles closures in one run
MaxHandles == 3

Touch(id, pt) == [identifier |-> id, clientX |-> pt.x, clientY |-> pt.y]

\* The operation a step performs: its name, whether an animation occupied the
\* slot when it began, and what is known of its arguments
Op(name) ==
  [name |-> name, anim |-> animation.active, nan |-> FALSE, finite |-> TRUE,
   handle |-> 0]
Attached(target, type, handler) == <<target, type, handler>> \in listeners

\* every quotient of two finite numbers the operation forms is an integer
ExactHalf(a, b) == Divides(Sub(b, a), Num(2))
ExactFrame ==
  /\ ExactHalf(transformState.scale, animation.target.scale)
  /\ ExactHalf(transformState.positionX, animation.target.positionX)
  /\ ExactHalf(transformState.positionY, animation.target.positionY)
ExactPinch(s) ==
  Len(s.activeTouches) > 1 /\ isPinchAllowed(s) /\ ~s.setup.disabled
  /\ s.contentComponent # NoElement =>
    LET t == s.activeTouches
        r == ContentRect(s)
        sc == s.transformState.scale
        sumX == Add(Sub(Num(t[1].clientX), r.left), Sub(Num(t[2].clientX), r.left))
        sumY == Add(Sub(Num(t[1].clientY), r.top), Sub(Num(t[2].clientY), r.top))
        n == Mul(s.pinchStartScale, getTouchDistance(t))
    IN /\ Divides(sumX, Num(2)) /\ Divides(Div(sumX, Num(2)), sc)
       /\ Divides(sumY, Num(2)) /\ Divides(Div(sumY, Num(2)), sc)
       /\ (IsFinite(n) /\ IsFinite(s.pinchStartDistance)
           /\ s.pinchStartDistance.v > 0
           /\ Le(Mul(s.setup.minScale, s.pinchStartDistance), n)
           /\ Le(n, Mul(s.setup.maxScale, s.pinchStartDistance))
             => Divides(n, s.pinchStartDistance))
ExactWheel(clientX, clientY) ==
  LET r == ContentRect(Cur)
  IN /\ Divides(Sub(Num(clientX), r.left), transformState.scale)
     /\ Divides(Sub(Num(clientY), r.top), transformState.scale)

Init ==
  \E p \in PropsSet :
    /\ props = p
    /\ setup = createSetup(p)
    /\ transformState = createState(p)
    /\ observer = NoObserver
    /\ onChangeCallbacks = <<>>
    /\ onInitCallbacks = <<>>
    /\ wrapperComponent = NoElement
    /\ contentComponent = NoElement
    /\ isInitialized = FALSE
    /\ bounds = NoBounds
    /\ wheelStopEventTimer = FALSE
    /\ isPanning = FALSE
    /\ startCoords = NoPosition
    /\ lastTouch = Null
    /\ lastDistance = Null
    /\ pinchStartDistance = Null
    /\ pinchStartScale = Null
    /\ pinchMidpoint = NoPosition
    /\ pinchLastCenterX = Null
    /\ pinchLastCenterY = Null
    /\ velocity = FALSE
    /\ animation = NoAnimation
    /\ pressedKeys = {}
    /\ activeTouches = <<>>
    /\ listeners = {}
    /\ anonymousListeners = [w \in Elements |-> 0]
    /\ observers = <<>>
    /\ contentSize \in ContentSizes
    /\ style = [c \in Elements |-> NoStyle]
    /\ now = 1
    /\ handles = <<>>
    /\ snapshot = NoSnapshot
    /\ lastOp = [name |-> "constructor", anim |-> FALSE, nan |-> FALSE,
                 finite |-> TRUE, handle |-> 0]
    /\ log = <<>>

\* Public operations
Mount == Install(Op("mount"), mount(Cur))
Unmount == Install(Op("unmount"), unmount(Cur))
InitCall(e) ==
  /\ Len(observers) < MaxInits
  /\ Install(Op("init"), init(Cur, e, e))
Update(p) == Install(Op("update"), update(Cur, p))
SetTransformStateCall(scale, x, y) ==
  Install([Op("setTransformState") EXCEPT
             !.nan = IsNaN(scale) \/ IsNaN(x) \/ IsNaN(y),
             !.finite = IsFinite(scale) /\ IsFinite(x) /\ IsFinite(y)],
          setTransformState(Cur, scale, x, y))
Subscribe(hook, cb, limit) ==
  /\ Len(handles) < limit
  /\ Install(Op(hook), subscribe(Cur, hook, cb))
Unsubscribe(h) ==
  Install([Op("unsubscribe") EXCEPT !.handle = h], unsubscribe(Cur, h))

\* the holder of a snapshot assigns ref.state.positionX
SnapshotWrite(value) ==
  /\ snapshot.held
  /\ Install(Op("snapshotWrite"), writeSnapshot(Cur, "positionX", value))

\* Events the host delivers to the listeners that are attached
MouseDown(target, pt, button) ==
  /\ Attached(Window, "mousedown", "onPanningStart")
  /\ Install(Op("onPanningStart"),
             onPanningStart(Cur, target, pt.x, pt.y, button))
MouseMove(pt) ==
  /\ Attached(Window, "mousemove", "onPanning")
  /\ Install(Op("onPanning"), onPanning(Cur, pt.x, pt.y))
MouseUp ==
  /\ Attached(Window, "mouseup", "onPanningStop")
  /\ Install(Op("onPanningStop"), onPanningStop(Cur))
MouseLeave ==
  /\ Attached(Document, "mouseleave", "clearPanning")
  /\ Install(Op("clearPanning"), clearPanning(Cur))
KeyDown(key) ==
  /\ Attached(Window, "keydown", "setKeyPressed")
  /\ Install(Op("setKeyPressed"), setKeyPressed(Cur, key))
KeyUp(key) ==
  /\ Attached(Window, "keyup", "setKeyUnPressed")
  /\ Install(Op("setKeyUnPressed"), setKeyUnPressed(Cur, key))
WheelZoom(w, delta, pt) ==
  /\ Attached(Wrapper(w), "wheel", "onWheelZoom")
  /\ ExactWheel(pt.x, pt.y)
  /\ Install(Op("onWheelZoom"), onWheelZoom(Cur, w, delta, pt.x, pt.y))
WheelPanning(w, deltaX, deltaY) ==
  /\ Attached(Wrapper(w), "wheel", "onWheelPanning")
  /\ Install(Op("onWheelPanning"),
             onWheelPanning(Cur, deltaX, deltaY, FALSE))
TouchStart(w, id, pt) ==
  /\ Attached(Wrapper(w), "touchstart", "onTouchPanningStart")
  /\ Install(Op("onTouchPanningStart"),
             onTouchPanningStart(Cur, <<Touch(id, pt)>>, w))
TouchMove(w, id, pt) ==
  /\ Attached(Wrapper(w), "touchmove", "onTouchPanning")
  /\ ExactPinch(addActiveTouches(removeActiveTouches(Cur, <<Touch(id, pt)>>),
                                 <<Touch(id, pt)>>))
  /\ Install(Op("onTouchPanning"),
             onTouchPanning(Cur, <<Touch(id, pt)>>))
TouchEnd(w, id, pt) ==
  /\ Attached(Wrapper(w), "touchend", "onTouchPanningStop")
  /\ Install(Op("onTouchPanningStop"),
             onTouchPanningStop(Cur, <<Touch(id, pt)>>))
TouchCancel(w, id, pt) ==
  /\ anonymousListeners[w] > 0
  /\ Install(Op("touchcancel"), onTouchCancel(Cur, <<Touch(id, pt)>>))

\* The environment: sizes, the resize observers, timers, frames, the clock
ResizeContent(size) ==
  /\ size # contentSize
  /\ Install(Op("resize"), [Cur EXCEPT !.contentSize = size])
ResizeObserverCallback(id) ==
  /\ observers[id].connected
  /\ Install(Op("resizeObserver"), resizeObserverCallback(Cur, id))
WheelStopTimeout ==
  /\ wheelStopEventTimer
  /\ Install(Op("wheelStopTimeout"), wheelStopTimeout(Cur))
AnimationFrame(last) ==
  /\ animation.active
  /\ last \/ ExactFrame
  /\ Install(Op("animationFrame"), animationFrame(Cur, last))
Tick ==
  /\ now < MaxTime
  /\ Install(Op("tick"), [Cur EXCEPT !.now = @ + DoubleTapWindow])

\* ------------------------------------------------------------------------
\* The commit and its subscribers: the controller is bound once, the host
\* calls setTransformState with finite and non-finite arguments, subscribes
\* and unsubscribes callbacks, replaces the configuration and resizes the
\* content
\* ------------------------------------------------------------------------

\* the numbers the host passes to setTransformState
CommitScales == {Num(1), Num(2), NaN}
CommitXs == {Num(0), Num(-4), NaN, PosInf, NegInf}
CommitYs == {Num(0), NaN}

NextCommit ==
  \/ ~isInitialized /\ InitCall(1)
  \/ \E scale \in CommitScales, x \in CommitXs, y \in CommitYs :
       SetTransformStateCall(scale, x, y)
  \/ \E cb \in Callbacks : Subscribe("onChange", cb, MaxHandles)
  \/ \E h \in DOMAIN handles : Unsubscribe(h)

InitCommit == Init /\ props = PropsWide /\ contentSize = WrapperSize

SpecCommit == InitCommit /\ [][NextCommit]_vars

\* ------------------------------------------------------------------------
\* Snapshots: a subscriber keeps the first snapshot it is handed, reads it
\* after later commits and writes to its state
\* ------------------------------------------------------------------------

NextSnapshot ==
  \/ ~isInitialized /\ InitCall(1)
  \/ \E scale \in {Num(1), Num(2)}, x \in {Num(0), Num(-4)} :
       SetTransformStateCall(scale, x, Num(0))
  \/ \E cb \in {Retainer, 1} : Subscribe("onChange", cb, 2)
  \/ \E h \in DOMAIN handles : Unsubscribe(h)
  \/ \E value \in {Num(4), NaN} : SnapshotWrite(value)

InitSnapshot == Init /\ props = PropsWide /\ contentSize = WrapperSize

SpecSnapshot == InitSnapshot /\ [][NextSnapshot]_vars

\* ------------------------------------------------------------------------
\* Binding and teardown: the host mounts, binds the controller to either
\* wrapper, tears it down, and keeps delivering the events, timers and frames
\* whose listeners are still attached
\* ------------------------------------------------------------------------

NextLifecycle ==
  \/ Mount
  \/ Unmount
  \/ \E e \in Elements : InitCall(e)
  \/ \E w \in Elements : TouchStart(w, 1, Origin)
  \/ \E w \in Elements : TouchMove(w, 1, Right)
  \/ \E w \in Elements : TouchEnd(w, 1, Right)
  \/ \E w \in Elements : TouchCancel(w, 1, Right)
  \/ KeyDown("a")
  \/ KeyUp("a")
  \/ MouseDown(1, Origin, 0)
  \/ MouseMove(Right)
  \/ MouseUp
  \/ MouseLeave
  \/ \E w \in Elements : WheelZoom(w, -1, Origin)
  \/ WheelStopTimeout
  \/ \E id \in DOMAIN observers : ResizeObserverCallback(id)
  \/ Tick

InitLifecycle == Init /\ props = PropsWide /\ contentSize = WrapperSize

SpecLifecycle == InitLifecycle /\ [][NextLifecycle]_vars

\* ------------------------------------------------------------------------
\* Gestures: the controller is bound to wrapper 1; one or two fingers pan and
\* pinch the content, the mouse button goes down and up, animations run to
\* their end, time passes, and the host replaces the configuration at any
\* moment
\* ------------------------------------------------------------------------

Next ==
  \/ ~isInitialized /\ InitCall(1)
  \/ \E p \in {PropsWide, PropsNarrow} : Update(p)
  \/ \E id \in TouchIds : \E pt \in FingerPoints(id) : TouchStart(1, id, pt)
  \/ \E id \in TouchIds : \E pt \in FingerPoints(id) : TouchMove(1, id, pt)
  \/ \E id \in TouchIds : TouchEnd(1, id, Origin)
  \/ MouseDown(1, Origin, 0)
  \/ MouseUp
  \/ AnimationFrame(TRUE)
  \/ Tick

InitGesture == Init /\ props = PropsWide /\ contentSize = WrapperSize

Spec == InitGesture /\ [][Next]_vars

\* ------------------------------------------------------------------------
\* Wheel panning: the wheel pans instead of zooming, while a resize of the
\* content may leave an alignment animation behind
\* ------------------------------------------------------------------------

NextWheelPan ==
  \/ InitCall(1)
  \/ \E p \in {PropsWheelPan, PropsWide} : Update(p)
  \/ \E size \in ContentSizes : ResizeContent(size)
  \/ \E deltaX \in {-4, 0, 4}, deltaY \in {-4, 0} :
       WheelPanning(1, deltaX, deltaY)
  \/ \E id \in DOMAIN observers : ResizeObserverCallback(id)
  \/ \E last \in BOOLEAN : AnimationFrame(last)

InitWheelPan == Init /\ props = PropsWheelPan

SpecWheelPan == InitWheelPan /\ [][NextWheelPan]_vars

\* ------------------------------------------------------------------------
\* Pinch moves that must be skipped: a third finger comes and goes, so that
\* two touches may be active with no pinch start recorded, and the host may
\* commit an infinite position, which makes the midpoint of the touches
\* non-finite
\* ------------------------------------------------------------------------

NextPinchGuard ==
  \/ ~isInitialized /\ InitCall(1)
  \/ \E x \in {Num(0), PosInf} : SetTransformStateCall(Num(1), x, Num(0))
  \/ \E id \in {1, 2, 3} : \E pt \in FingerPoints(id) : TouchStart(1, id, pt)
  \/ \E id \in {1, 2, 3} : \E pt \in FingerPoints(id) : TouchMove(1, id, pt)
  \/ \E id \in {1, 2, 3} : TouchEnd(1, id, Origin)

InitPinchGuard == Init /\ props = PropsWide /\ contentSize = WrapperSize

SpecPinchGuard == InitPinchGuard /\ [][NextPinchGuard]_vars

\* ------------------------------------------------------------------------
\* Size changes: the controller is bound with centerOnInit before the content
\* has a size; the content is resized, the resize observers notify, the host
\* commits positions and replaces the configuration
\* ------------------------------------------------------------------------

NextResize ==
  \/ InitCall(1)
  \/ \E p \in {PropsCentered, PropsWide, PropsZoomedOut} : Update(p)
  \/ \E size \in ContentSizes : ResizeContent(size)
  \/ \E id \in DOMAIN observers : ResizeObserverCallback(id)
  \/ \E x \in {Num(0), Num(-4)} : SetTransformStateCall(Num(1), x, Num(0))
  \/ AnimationFrame(TRUE)

InitResize ==
  Init /\ props = PropsCentered /\ contentSize = [width |-> 0, height |-> 0]

SpecResize == InitResize /\ [][NextResize]_vars

\* ------------------------------------------------------------------------
\* The touch list: two fingers are put down, moved, lifted and cancelled
\* while the host disables and enables the controller
\* ------------------------------------------------------------------------

NextTouches ==
  \/ ~isInitialized /\ InitCall(1)
  \/ \E p \in {PropsWide, PropsDisabled} : Update(p)
  \/ \E id \in TouchIds : \E pt \in FingerPoints(id) : TouchStart(1, id, pt)
  \/ \E id \in TouchIds : \E pt \in FingerPoints(id) : TouchMove(1, id, pt)
  \/ \E id \in TouchIds : TouchEnd(1, id, Origin)
  \/ \E id \in TouchIds : TouchCancel(1, id, Origin)

InitTouches == Init /\ props = PropsWide /\ contentSize = WrapperSize

SpecTouches == InitTouches /\ [][NextTouches]_vars

\* ------------------------------------------------------------------------
\* Cancelled touches: fingers are put down, moved, lifted and cancelled on
\* an enabled controller while time passes, so that a touch after a cancel
\* need not be a double tap
\* ------------------------------------------------------------------------

NextTouchCancel ==
  \/ ~isInitialized /\ InitCall(1)
  \/ \E id \in TouchIds : \E pt \in FingerPoints(id) : TouchStart(1, id, pt)
  \/ \E id \in TouchIds : \E pt \in FingerPoints(id) : TouchMove(1, id, pt)
  \/ \E id \in TouchIds : TouchEnd(1, id, Origin)
  \/ \E id \in TouchIds : TouchCancel(1, id, Origin)
  \/ Tick

InitTouchCancel == Init /\ props = PropsWide /\ contentSize = WrapperSize

SpecTouchCancel == InitTouchCancel /\ [][NextTouchCancel]_vars

\* ------------------------------------------------------------------------
\* Activation keys: panning and wheel are configured with the keys a and b,
\* or with none; the keys go down and up while the mouse pans and the wheel
\* zooms
\* ------------------------------------------------------------------------

NextKeys ==
  \/ ~isInitialized /\ InitCall(1)
  \/ \E p \in {PropsKeys, PropsWide} : Update(p)
  \/ \E key \in {"a", "b"} : KeyDown(key)
  \/ \E key \in {"a", "b"} : KeyUp(key)
  \/ MouseDown(1, Origin, 0)
  \/ \E pt \in {Origin, Right} : MouseMove(pt)
  \/ MouseUp
  \/ \E delta \in {-1, 1} : WheelZoom(1, delta, Origin)
  \/ WheelStopTimeout

InitKeys == Init /\ props = PropsKeys /\ contentSize = WrapperSize

SpecKeys == InitKeys /\ [][NextKeys]_vars

\* C1: a setTransformState call with a NaN argument leaves the transform
\* state and the applied style as they were, invokes no onChange subscriber
\* and no onTransformed callback, and reports exactly one diagnostic
C1_NaNCommitRejected ==
  [][(lastOp'.name = "setTransformState" /\ lastOp'.nan) =>
       /\ transformState' = transformState
       /\ style' = style
       /\ log' = <<[kind |-> "console.error", who |-> 0,
                    seen |-> transformState, anim |-> animation.active]>>]_vars

\* C1: a NaN call has been rejected while a subscriber was registered and
\* the state held an earlier, non-default commit
C1_Witness ==
  /\ lastOp.name = "setTransformState"
  /\ lastOp.nan
  /\ onChangeCallbacks # <<>>
  /\ transformState.positionX = Num(-4)
  /\ transformState.scale = Num(2)

\* C2: scale, positionX and positionY are finite in every reachable state
C2_AlwaysFinite ==
  /\ IsFinite(transformState.scale)
  /\ IsFinite(transformState.positionX)
  /\ IsFinite(transformState.positionY)

\* C10: a commit that passes validation invokes exactly the subscribed
\* onChange callbacks, each once, with the updated state; and calling an
\* unsubscribe handle that was called before changes nothing
C10_SubscribersAndHandles ==
  [][/\ (lastOp'.name = "setTransformState" /\ ~lastOp'.nan) =>
          LET called == SelectSeq(log', LAMBDA e : e.kind = "onChange")
          IN /\ Len(called) = Len(onChangeCallbacks)
             /\ \A i \in DOMAIN called :
                  /\ called[i].who = onChangeCallbacks[i]
                  /\ called[i].seen = transformState'
     /\ (lastOp'.name = "unsubscribe" /\ handles[lastOp'.handle].called) =>
          /\ onChangeCallbacks' = onChangeCallbacks
          /\ onInitCallbacks' = onInitCallbacks]_vars

\* C5: right after teardown no listener of the controller is attached to the
\* window, the document or any wrapper, and no resize observer is connected
C5_TeardownDetachesAll ==
  lastOp.name = "unmount" =>
    /\ listeners = {}
    /\ \A w \in Elements : anonymousListeners[w] = 0
    /\ \A id \in DOMAIN observers : ~observers[id].connected

\* C6: once torn down the animation slot is empty and no wheel-stop timer is
\* pending, and an input event, timer or observer callback that still fires
\* neither changes the transform state nor notifies anyone
C6_QuietAfterTeardown ==
  [][lastOp.name = "unmount" =>
       /\ ~animation.active
       /\ ~wheelStopEventTimer
       /\ lastOp'.name \notin {"mount", "unmount", "init", "tick"} =>
            /\ transformState' = transformState
            /\ style' = style
            /\ log' = <<>>]_vars

\* C7: right after init(w, c) the attached listeners are those of a single
\* init(w, c): the window and document listeners, the wrapper listeners of w
\* alone, one touchcancel listener on w and none elsewhere, and exactly one
\* connected resize observer
C7_InitRebinds ==
  lastOp.name = "init" =>
    /\ listeners = WindowListeners \cup WrapperListeners(wrapperComponent)
         \cup {<<Wrapper(wrapperComponent), "wheel", "onWheelPanning">>}
    /\ anonymousListeners =
         [w \in Elements |-> IF w = wrapperComponent THEN 1 ELSE 0]
    /\ Cardinality({id \in DOMAIN observers : observers[id].connected}) = 1

\* C4: whenever a direct-input handler (pan move, pinch move, wheel zoom,
\* wheel panning) commits a transform, no animation is active at that commit
C4_NoCommitDuringAnimation ==
  lastOp.name \in {"onPanning", "onTouchPanning", "onWheelZoom",
                   "onWheelPanning"} =>
    \A i \in DOMAIN log : log[i].kind = "commit" => ~log[i].anim

\* C3: a mouse pan start, touch pan start or pinch start that passes its
\* gates while an animation is active leaves the animation slot empty, every
\* callback and commit of that handler runs with the slot already empty, and
\* the step that follows a started gesture is never an animation frame
C3_GestureStartCancelsAnimation ==
  [][/\ (/\ lastOp'.name \in {"onPanningStart", "onTouchPanningStart"}
         /\ lastOp'.anim
         /\ \E i \in DOMAIN log' :
              log'[i].kind \in {"onPanningStart", "onPinchingStart"}) =>
          /\ ~animation'.active
          /\ \A i \in DOMAIN log' : ~log'[i].anim
     /\ (/\ lastOp.name \in {"onPanningStart", "onTouchPanningStart"}
         /\ \E i \in DOMAIN log :
              log[i].kind \in {"onPanningStart", "onPinchingStart"}) =>
          lastOp'.name # "animationFrame"]_vars

\* C3: a mouse pan has started while an animation was running
C3_Witness ==
  /\ lastOp.name = "onPanningStart"
  /\ lastOp.anim
  /\ isPanning
  /\ \E i \in DOMAIN log : log[i].kind = "onPanningStart"

\* C8: update leaves scale, previousScale, positionX, positionY and the
\* applied style as they were, notifies nobody, and leaves the fields of a
\* gesture in progress untouched
C8_UpdateKeepsTransform ==
  [][lastOp'.name = "update" =>
       /\ transformState' = transformState
       /\ style' = style
       /\ log' = <<>>
       /\ isPanning' = isPanning
       /\ startCoords' = startCoords
       /\ activeTouches' = activeTouches
       /\ <<lastDistance, pinchStartDistance, pinchStartScale, pinchMidpoint,
            pinchLastCenterX, pinchLastCenterY>>' =
          <<lastDistance, pinchStartDistance, pinchStartScale, pinchMidpoint,
            pinchLastCenterX, pinchLastCenterY>>]_vars

\* C8: the configuration was replaced by a narrower one in the middle of a
\* pinch that had zoomed in and moved the content
C8_Witness ==
  /\ lastOp.name = "update"
  /\ props = PropsNarrow
  /\ Len(activeTouches) = 2
  /\ Truthy(pinchStartScale)
  /\ transformState.scale = Num(2)
  /\ transformState.positionX # Num(0)

\* C9: with no gesture in flight and no animation active the scale lies
\* within the configured limits
C9_ScaleWithinLimits ==
  (~isPanning /\ activeTouches = <<>> /\ ~Truthy(pinchStartScale)
   /\ ~animation.active) =>
    /\ Le(setup.minScale, transformState.scale)
    /\ Le(transformState.scale, setup.maxScale)

\* C11: a snapshot kept by a subscriber shows the values of the commit it
\* was handed at, whatever is committed later, and an assignment to the
\* snapshot's state leaves the controller's transform state as it was
C11_SnapshotReadOnly ==
  [][/\ (snapshot'.held /\ lastOp'.name # "snapshotWrite") =>
          snapshotState(snapshot', transformState') = snapshot'.taken
     /\ lastOp'.name = "snapshotWrite" =>
          transformState' = transformState]_vars

\* C12: a setTransformState call on a controller that init has not bound yet
\* does not proceed: the transform state is unchanged, no subscriber or
\* callback is invoked, and the only effect is a reported error
C12_MisuseRejected ==
  [][(~isInitialized /\ lastOp'.name = "setTransformState") =>
       /\ transformState' = transformState
       /\ \A i \in DOMAIN log' : log'[i].kind = "console.error"
       /\ log' # <<>>]_vars

\* C13: during an active pinch a move sample that reports both touches where
\* the previous sample had them commits nothing: the transform state, the
\* last pinch centre, lastDistance and pinchMidpoint are unchanged and no
\* commit is made
C13_SamePinchSampleIsNoOp ==
  [][(/\ lastOp'.name = "onTouchPanning"
      /\ Len(activeTouches) = 2
      /\ Range(activeTouches') = Range(activeTouches)
      /\ Truthy(pinchStartScale)
      /\ pinchStartDistance # Null) =>
       /\ transformState' = transformState
       /\ <<pinchLastCenterX, pinchLastCenterY, lastDistance, pinchMidpoint>>'
            = <<pinchLastCenterX, pinchLastCenterY, lastDistance, pinchMidpoint>>
       /\ \A i \in DOMAIN log' : log'[i].kind # "commit"]_vars

\* a two-touch move of an active pinch that commits
PinchMoveCommits ==
  /\ lastOp'.name = "onTouchPanning"
  /\ Len(activeTouches') = 2
  /\ pinchStartDistance # Null
  /\ \E i \in DOMAIN log' : log'[i].kind = "commit"

\* C14: every pinch move that commits, commits the scale
\* startScale * (currentDistance / startDistance) clamped to
\* [minScale, maxScale]; startScale and startDistance are the scale and the
\* distance of the two touches at the pinch start, and no move changes them
C14_PinchScaleFromStart ==
  [][/\ (lastOp'.name = "onTouchPanningStart"
         /\ \E i \in DOMAIN log' : log'[i].kind = "onPinchingStart") =>
          /\ pinchStartScale' = transformState.scale
          /\ pinchStartDistance' = getTouchDistance(activeTouches')
     /\ lastOp'.name = "onTouchPanning" =>
          /\ pinchStartScale' = pinchStartScale
          /\ pinchStartDistance' = pinchStartDistance
     /\ PinchMoveCommits =>
          LET n == pinchStartScale.v * getTouchDistance(activeTouches').v
              d == pinchStartDistance.v
              lo == setup.minScale.v
              hi == setup.maxScale.v
              c == transformState'.scale
          IN /\ IsFinite(c)
             /\ \/ n <= lo * d /\ c.v = lo
                \/ n >= hi * d /\ c.v = hi
                \/ lo * d <= n /\ n <= hi * d /\ c.v * d = n]_vars

\* C14: a second move of the same pinch has committed: the scale, started
\* at 1 with the touches 4 apart and brought to 2 by a first move, is back at 1
C14_Witness ==
  /\ lastOp.name = "onTouchPanning"
  /\ Len(activeTouches) = 2
  /\ Len(log) > 0 /\ log[1].kind = "commit"
  /\ pinchStartScale = Num(1)
  /\ pinchStartDistance = Num(4)
  /\ lastDistance = Num(4)
  /\ transformState.scale = Num(1)
  /\ transformState.previousScale = Num(2)

\* C15: the touch dispatcher follows the number of active touches: a
\* touchstart that raises it from 1 to 2 during a pan notifies onPanningStop
\* and starts a pinch; a touchend that lowers it from 2 to 1 stops the pinch
\* and starts a pan for the remaining touch; after any touchstart or touchend
\* that leaves two or more touches the pinch is the active recognizer
C15_DispatchFollowsTouchCount ==
  [][/\ (lastOp'.name = "onTouchPanningStart" /\ isPanning
         /\ Len(activeTouches) = 1 /\ Len(activeTouches') = 2) =>
          /\ \E i \in DOMAIN log' : log'[i].kind = "onPanningStop"
          /\ \E i \in DOMAIN log' : log'[i].kind = "onPinchingStart"
          /\ ~isPanning'
     /\ (lastOp'.name = "onTouchPanningStop" /\ pinchStartDistance # Null
         /\ Len(activeTouches) = 2 /\ Len(activeTouches') = 1) =>
          /\ pinchStartDistance' = Null
          /\ isPanning'
     /\ (lastOp'.name \in {"onTouchPanningStart", "onTouchPanningStop"}
         /\ Len(activeTouches') >= 2) =>
          /\ pinchStartDistance' # Null
          /\ ~isPanning']_vars

\* a touchstart passes the gates of onTouchPanningStart
TouchStartPermitted ==
  /\ lastOp'.name = "onTouchPanningStart"
  /\ isInitialized
  /\ ~setup.disabled
  /\ ~setup.panning.disabled

\* the touchstart leaves one touch less than 200 ms after lastTouch
DoubleTapStep ==
  /\ Len(activeTouches') = 1
  /\ lastTouch # Null
  /\ now - lastTouch.v < 200

\* C16: a permitted touchstart that leaves exactly one active touch less than
\* 200 ms after the last touchstart that began a gesture changes neither
\* isPanning nor startCoords nor lastTouch, leaves a running animation alone
\* and fires no onPanningStart; every other permitted touchstart records
\* lastTouch and starts a pan (one touch) or a pinch (two touches)
C16_DoubleTapStartsNothing ==
  [][/\ (TouchStartPermitted /\ DoubleTapStep) =>
          /\ isPanning' = isPanning
          /\ startCoords' = startCoords
          /\ lastTouch' = lastTouch
          /\ animation' = animation
          /\ \A i \in DOMAIN log' : log'[i].kind # "onPanningStart"
     /\ (TouchStartPermitted /\ ~DoubleTapStep) =>
          /\ lastTouch' = Num(now)
          /\ Len(activeTouches') = 1 =>
               /\ isPanning'
               /\ startCoords' # NoPosition
               /\ \E i \in DOMAIN log' : log'[i].kind = "onPanningStart"
          /\ Len(activeTouches') = 2 =>
               /\ pinchStartDistance' # Null
               /\ \E i \in DOMAIN log' : log'[i].kind = "onPinchingStart"]_vars

\* C16: a double tap has arrived while an animation was running, and the
\* animation still runs
C16_Witness ==
  /\ lastOp.name = "onTouchPanningStart"
  /\ Len(activeTouches) = 1
  /\ lastTouch # Null
  /\ now - lastTouch.v < 200
  /\ animation.active
  /\ ~isPanning
  /\ log = <<>>

\* a two-touch move arrives while no pinch start is recorded or while the
\* midpoint of the two touches, taken in content coordinates, is not finite
SkippedPinchMove ==
  /\ lastOp'.name = "onTouchPanning"
  /\ Len(activeTouches') = 2
  /\ \/ pinchStartDistance = Null
     \/ LET midPoint == calculateTouchMidPoint(
                          [Cur EXCEPT !.activeTouches = activeTouches'],
                          transformState.scale)
        IN ~IsFinite(midPoint.x) \/ ~IsFinite(midPoint.y)

\* C17: a pinch move with a non-finite midpoint, or with no pinch start
\* recorded, is skipped: nothing is committed and the transform state, the
\* last pinch centre, lastDistance, pinchMidpoint and the bounds are unchanged
C17_DegeneratePinchMoveSkipped ==
  [][SkippedPinchMove =>
       /\ transformState' = transformState
       /\ style' = style
       /\ <<pinchLastCenterX, pinchLastCenterY, lastDistance, pinchMidpoint>>'
            = <<pinchLastCenterX, pinchLastCenterY, lastDistance, pinchMidpoint>>
       /\ bounds' = bounds
       /\ \A i \in DOMAIN log' :
            log'[i].kind \notin {"commit", "onChange", "onTransformed",
                                 "console.error"}]_vars

\* C17: a move of an active pinch has been skipped for its midpoint: the
\* fingers are 8 apart where the pinch began with them 4 apart, the position
\* is infinite and the scale is the one of the pinch start
C17_Witness ==
  /\ lastOp.name = "onTouchPanning"
  /\ Len(activeTouches) = 2
  /\ pinchStartDistance = Num(4)
  /\ getTouchDistance(activeTouches) = Num(8)
  /\ lastDistance = Num(4)
  /\ transformState.positionX = PosInf
  /\ transformState.scale = pinchStartScale
  /\ \E i \in DOMAIN log : log[i].kind = "onPinching"

\* C18: a touchend that stops an active pinch leaves pinchStartDistance,
\* pinchStartScale, lastDistance, pinchMidpoint, pinchLastCenterX and
\* pinchLastCenterY all null and runs the alignment with the midpoint held
\* before the clearing; a touchend with no pinch start recorded notifies no
\* pinch stop and triggers no alignment of the scale
C18_PinchStopClearsRuntime ==
  [][/\ (lastOp'.name = "onTouchPanningStop" /\ Truthy(pinchStartScale)) =>
          /\ pinchStartDistance' = Null
          /\ pinchStartScale' = Null
          /\ lastDistance' = Null
          /\ pinchMidpoint' = NoPosition
          /\ pinchLastCenterX' = Null
          /\ pinchLastCenterY' = Null
          /\ animation' =
               handleAlignToScaleBounds(
                 [Cur EXCEPT !.isPanning = FALSE, !.velocity = FALSE],
                 pinchMidpoint).animation
          /\ \E i \in DOMAIN log' : log'[i].kind = "onPinchingStop"
     /\ (lastOp'.name = "onTouchPanningStop" /\ ~Truthy(pinchStartScale)) =>
          /\ \A i \in DOMAIN log' :
               log'[i].kind \notin {"onPinchingStop", "onZoomStop"}
          /\ ~isPanning => animation' = animation]_vars

\* C19: with limitToBounds set, the position a pinch move commits lies on
\* each axis within [min - padding, max + padding] of the bounds computed
\* and stored by that move for its new scale
C19_PinchPositionWithinBounds ==
  [][(PinchMoveCommits /\ setup.limitToBounds) =>
       LET paddingX == getPaddingValue(Cur, setup.alignmentAnimation.sizeX)
           paddingY == getPaddingValue(Cur, setup.alignmentAnimation.sizeY)
           x == transformState'.positionX
           y == transformState'.positionY
       IN /\ bounds' = calculateBounds(Cur, transformState'.scale)
          /\ Le(Sub(bounds'.minPositionX, paddingX), x)
          /\ Le(x, Add(bounds'.maxPositionX, paddingX))
          /\ Le(Sub(bounds'.minPositionY, paddingY), y)
          /\ Le(y, Add(bounds'.maxPositionY, paddingY))]_vars

\* C19: a pinch move whose centre moved from 4 to 6 has committed the scale
\* 1 after the scale 2, at the position 0 that the bounds of scale 1 allow
C19_Witness ==
  /\ lastOp.name = "onTouchPanning"
  /\ Len(activeTouches) = 2
  /\ \E i \in DOMAIN log : log[i].kind = "commit"
  /\ setup.limitToBounds
  /\ pinchLastCenterX = Num(6)
  /\ transformState.scale = Num(1)
  /\ transformState.previousScale = Num(2)
  /\ transformState.positionX = Num(0)
  /\ bounds.minPositionX = Num(0) /\ bounds.maxPositionX = Num(0)

\* C20: every notification of a resize observer recomputes the bounds for
\* the current scale; an observer created with centerOnInit that has not
\* centered yet then centers the content and counts as centered from then
\* on; any other observer cancels the animation, commits nothing and starts
\* the alignment to the new bounds
C20_ResizeRecomputesThenCentersOrAligns ==
  [][lastOp'.name = "resizeObserver" =>
       \E id \in DOMAIN observers :
         /\ observers[id].connected
         /\ bounds' = calculateBounds(Cur, transformState.scale)
         /\ IF observers[id].centerOnInit /\ ~observers[id].isCentered
              THEN LET t == getCenterPosition(Cur, transformState.scale)
                   IN /\ observers'[id].isCentered
                      /\ transformState'.positionX = t.positionX
                      /\ transformState'.positionY = t.positionY
              ELSE /\ observers' = observers
                   /\ transformState' = transformState
                   /\ animation' =
                        handleAlignToBounds(
                          handleCalculateBounds(handleCancelAnimation(Cur),
                                                transformState.scale)).animation
    ]_vars

\* C21: after update on a bound controller the stored setup is the one
\* derived from the new props, and the stored bounds are those of the
\* current scale under that new setup
C21_UpdateBoundsUnderNewSetup ==
  [][(lastOp'.name = "update" /\ wrapperComponent # NoElement
      /\ contentComponent # NoElement) =>
       /\ setup' = createSetup(props')
       /\ bounds' = calculateBounds([Cur EXCEPT !.setup = setup'],
                                    transformState.scale)]_vars

\* the entries of the touch list other than those of finger id
OtherTouches(id) == {t \in Range(activeTouches) : t.identifier # id}

\* C22: the touch list never holds two entries of one identifier; a
\* touchstart or touchmove of a finger leaves the list with the entries of
\* the other fingers and the reported entry of this one; a touchend or
\* touchcancel of a finger leaves the entries of the other fingers; no other
\* operation changes the list; all this whether or not the controller is
\* disabled
C22_TouchListTracksFingers ==
  [][/\ \A i, j \in DOMAIN activeTouches' :
          activeTouches'[i].identifier = activeTouches'[j].identifier => i = j
     /\ \A id \in TouchIds : \A pt \in FingerPoints(id) :
          (TouchStart(1, id, pt) \/ TouchMove(1, id, pt)) =>
            Range(activeTouches') = OtherTouches(id) \cup {Touch(id, pt)}
     /\ \A id \in TouchIds :
          (TouchEnd(1, id, Origin) \/ TouchCancel(1, id, Origin)) =>
            Range(activeTouches') = OtherTouches(id)
     /\ lastOp'.name \notin {"onTouchPanningStart", "onTouchPanning",
                             "onTouchPanningStop", "touchcancel"} =>
          activeTouches' = activeTouches]_vars

\* C22: on a disabled controller finger 1, put down at the origin beside
\* finger 2, has moved to the right, and the list holds its new place
C22_Witness ==
  /\ lastOp.name = "onTouchPanning"
  /\ setup.disabled
  /\ activeTouches = <<Touch(2, Far), Touch(1, Right)>>
  /\ pinchStartDistance = Num(8)

\* C24: a touchend or touchcancel that empties the touch list leaves no
\* pan and no pinch behind (isPanning false, pinchStartScale and
\* pinchStartDistance null), and a pan and a pinch are never both active
C24_NoGestureWithoutTouches ==
  [][/\ (lastOp'.name \in {"onTouchPanningStop", "touchcancel"}
         /\ activeTouches # <<>> /\ activeTouches' = <<>>) =>
          /\ ~isPanning'
          /\ pinchStartScale' = Null
          /\ pinchStartDistance' = Null
     /\ ~(isPanning' /\ pinchStartScale' # Null)]_vars

\* the chord of a non-empty key list is not pressed
ChordMissing(keys) == keys # {} /\ ~(keys \subseteq pressedKeys)

\* C23: a mouse pan start or pan move while the chord of
\* panning.activationKeys is not pressed, and a wheel zoom while the chord
\* of wheel.activationKeys is not pressed, change neither the transform
\* state nor the pan nor the animation nor the wheel timer and notify
\* nobody; with no activation key configured a mouse down on the wrapper of
\* an enabled controller starts the pan whatever keys are pressed
C23_ChordGatesMouseAndWheel ==
  [][/\ (\/ /\ lastOp'.name \in {"onPanningStart", "onPanning"}
            /\ ChordMissing(setup.panning.activationKeys)
         \/ /\ lastOp'.name = "onWheelZoom"
            /\ ChordMissing(setup.wheel.activationKeys)) =>
          /\ transformState' = transformState
          /\ isPanning' = isPanning
          /\ startCoords' = startCoords
          /\ animation' = animation
          /\ wheelStopEventTimer' = wheelStopEventTimer
          /\ log' = <<>>
     /\ (/\ lastOp'.name = "onPanningStart"
         /\ setup.panning.activationKeys = {}
         /\ isInitialized /\ ~setup.disabled /\ ~setup.panning.disabled) =>
          isPanning']_vars

====
